---- MODULE Spec2Model ----
(***************************************************************************)
(* Fit-time behaviour of the imputation steps of ibisml                    *)
(* (src/ibisml/steps/impute.py): FillNA, ImputeMean, ImputeMedian and      *)
(* ImputeMode.  A Step holds a selector (and, for FillNA, a fill value);   *)
(* fit(table, metadata) resolves the selector, derives one scalar per      *)
(* selected column and wraps the mapping into a FillNA transform.          *)
(*                                                                         *)
(* The table engine (ibis) and the selector (ibisml.select) are            *)
(* collaborators of the file; they are modelled by what the file consumes  *)
(* of them.                                                                *)
(***************************************************************************)
EXTENDS Integers, Sequences, FiniteSets

VARIABLES
    step,       \* the Step object: [variant, inputs, fill_value]
    config,     \* the arguments the Step was constructed with (never written again)
    table,      \* the training table the caller holds
    metadata,   \* the metadata the caller holds
    calls       \* the outcomes of the two most recent fit calls, oldest first

vars == <<step, config, table, metadata, calls>>

-----------------------------------------------------------------------------
(* Bounds of the model. *)

MaxRows == 2        \* a table has 0..MaxRows rows

-----------------------------------------------------------------------------
(* Tables, metadata and scalars. *)

Null == 0
Values == {1, 2}
Cells == {Null} \cup Values

ColumnOrder == <<"a", "b">>
ColumnNames == {"a", "b"}
Dtypes == {"numeric", "string"}

Tables ==
    UNION { { [types |-> ty, data |-> d] :
                ty \in [ColumnNames -> Dtypes],
                d \in [ColumnNames -> [1..n -> Cells]] } : n \in 0..MaxRows }

Metadatas == { [categories |-> s] : s \in {{}, {"b"}} }

\* A scalar read back from the engine for mean and median: an exact fraction
\* in lowest terms; NullScalar is the engine's NULL (no non-null input).
NullScalar == [num |-> 0, den |-> 0]

RECURSIVE Gcd(_, _)
Gcd(x, y) == IF y = 0 THEN x ELSE Gcd(y, x % y)

Fraction(n, d) == [num |-> n \div Gcd(n, d), den |-> d \div Gcd(n, d)]

RECURSIVE SeqSum(_)
SeqSum(s) == IF s = <<>> THEN 0 ELSE Head(s) + SeqSum(Tail(s))

Range(s) == { s[i] : i \in DOMAIN s }

NonNull(data) == SelectSeq(data, LAMBDA v : v # Null)

Count(data, v) == Cardinality({ i \in DOMAIN data : data[i] = v })

-----------------------------------------------------------------------------
(* The table engine (ibis): statistics over a column's non-null cells. *)

\* The k-th smallest of the non-null cells of data, 1 <= k <= Len(NonNull(data)).
Kth(data, k) ==
    CHOOSE v \in Range(NonNull(data)) :
        /\ Cardinality({ i \in DOMAIN data : data[i] # Null /\ data[i] < v }) < k
        /\ Cardinality({ i \in DOMAIN data : data[i] # Null /\ data[i] <= v }) >= k

\* col.mean(): arithmetic mean of the non-null cells, NULL when there are none.
Mean(data) ==
    LET nn == NonNull(data) IN
    IF nn = <<>> THEN NullScalar ELSE Fraction(SeqSum(nn), Len(nn))

\* col.median(): the middle non-null cell, or the midpoint of the two middle
\* ones when their number is even; NULL when there are none.
Median(data) ==
    LET k == Len(NonNull(data)) IN
    IF k = 0 THEN NullScalar
    ELSE IF k % 2 = 1 THEN Fraction(Kth(data, (k + 1) \div 2), 1)
    ELSE Fraction(Kth(data, k \div 2) + Kth(data, k \div 2 + 1), 2)

\* col.mode(): a most frequent non-null cell.  With several of them the engine
\* returns whichever it meets first, so every one of them is a possible answer.
Modes(data) ==
    LET nn == Range(NonNull(data)) IN
    IF nn = {} THEN {Null}
    ELSE { v \in nn : \A w \in nn : Count(data, w) <= Count(data, v) }

\* The values the engine can return for one aggregation expression.
Evaluate(t, expr) ==
    CASE expr.op = "mean" -> {Mean(t.data[expr.column])}
      [] expr.op = "median" -> {Median(t.data[expr.column])}
      [] expr.op = "mode" -> Modes(t.data[expr.column])

-----------------------------------------------------------------------------
(* Errors and call outcomes. *)

NoError == [cls |-> "none", column |-> "", op |-> ""]
EngineError == [cls |-> "EngineError", column |-> "", op |-> "execute"]
IndexError == [cls |-> "IndexError", column |-> "", op |-> "records[0]"]
SelectionError(c) == [cls |-> "SelectionError", column |-> c, op |-> "select_columns"]

\* What a call returns to its caller: a value, or a raised error.
Return(v) == [raised |-> FALSE, error |-> NoError, value |-> <<v>>]
Raise(e) == [raised |-> TRUE, error |-> e, value |-> <<>>]

\* The mapping of a transform with no column.
Empty == [c \in {} |-> Null]

\* ml.transforms.FillNA(mapping): the transform holds the mapping it is given.
Transform(mapping) == mapping

-----------------------------------------------------------------------------
(* The selector (ibisml.select). *)

SelectionSpecs ==
    { [kind |-> "list", names |-> n] :
        n \in {<<"a">>, <<"a", "b">>, <<"b", "a">>, <<"a", "z">>} }
    \cup { [kind |-> k, names |-> <<>>] : k \in {"numeric", "string", "categorical"} }

\* selector(inputs): a list of names becomes a by-name selector, a selector is kept.
selector(inputs) ==
    IF inputs.kind = "list" THEN [kind |-> "cols", names |-> inputs.names] ELSE inputs

\* inputs.select_columns(table, metadata): the ordered, distinct names selected.
\* A by-name selector fails on the first name the schema lacks; a predicate
\* selector returns the columns of the schema that match, possibly none.
select_columns(sel, t, md) ==
    CASE sel.kind = "cols" ->
            LET missing == SelectSeq(sel.names, LAMBDA c : c \notin DOMAIN t.types) IN
            IF missing # <<>> THEN Raise(SelectionError(Head(missing)))
            ELSE Return(sel.names)
      [] sel.kind = "numeric" ->
            Return(SelectSeq(ColumnOrder, LAMBDA c : t.types[c] = "numeric"))
      [] sel.kind = "string" ->
            Return(SelectSeq(ColumnOrder, LAMBDA c : t.types[c] = "string"))
      [] sel.kind = "categorical" ->
            Return(SelectSeq(ColumnOrder, LAMBDA c : c \in md.categories))

-----------------------------------------------------------------------------
(* The engine's side of table.aggregate(metrics).execute().to_dict("records"). *)

\* Mutant of name: the label is dropped, the expression keeps its own name.
name_unlabelled(expr, c) == expr

\* expr.name(c): the expression labelled c.
name(expr, c) == [expr EXCEPT !.name = c]

\* The rows an aggregation without grouping can come back with: one row, a
\* field per metric, each holding a value the engine can return for it.
Rows(t, metrics) ==
    LET fields == { metrics[i].name : i \in DOMAIN metrics }
        values == UNION { Evaluate(t, metrics[i]) : i \in DOMAIN metrics }
    IN  { r \in [fields -> values] :
            \A i \in DOMAIN metrics : r[metrics[i].name] \in Evaluate(t, metrics[i]) }

\* The records of the executed aggregation, or the engine's error.  An engine
\* that is down raises.  Nothing in the file fixes what an aggregation of no
\* metric does: the engine may reject it, answer no row, or one empty row.
execute(up, t, metrics) ==
    IF ~up THEN {Raise(EngineError)}
    ELSE IF metrics = <<>> THEN {Raise(EngineError), Return(<<>>), Return(<<Empty>>)}
    ELSE { Return(<<r>>) : r \in Rows(t, metrics) }

-----------------------------------------------------------------------------
(* The steps. *)

Variants == {"FillNA", "ImputeMean", "ImputeMedian", "ImputeMode"}
FillValues == {0, 9}
NoFill == -1

\* FillNA.__init__(inputs, fill_value)
FillNA_init(inputs, fill_value) ==
    [variant |-> "FillNA", inputs |-> selector(inputs), fill_value |-> fill_value]

\* _BaseImpute.__init__(inputs), for the variant constructed
BaseImpute_init(variant, inputs) ==
    [variant |-> variant, inputs |-> selector(inputs), fill_value |-> NoFill]

\* Mutant of Column: every lookup returns the first column of the schema.
Column_first(t, c) == [name |-> Head(ColumnOrder), dtype |-> t.types[Head(ColumnOrder)]]

\* table[c]: the handle of column c
Column(t, c) == [name |-> c, dtype |-> t.types[c]]

ValueError(op, col) == [cls |-> "ValueError", column |-> col.name, op |-> op]

\* ImputeMean._stat(col)
ImputeMean_stat(col) ==
    IF col.dtype # "numeric" THEN Raise(ValueError("mean", col))
    ELSE Return([op |-> "mean", column |-> col.name, name |-> "mean"])

\* Mutant of ImputeMedian_stat: the error is the one copied from ImputeMean.
ImputeMedian_stat_copied(col) ==
    IF col.dtype # "numeric" THEN Raise(ValueError("mean", col))
    ELSE Return([op |-> "median", column |-> col.name, name |-> "median"])

\* ImputeMedian._stat(col)
ImputeMedian_stat(col) ==
    IF col.dtype # "numeric" THEN Raise(ValueError("median", col))
    ELSE Return([op |-> "median", column |-> col.name, name |-> "median"])

\* ImputeMode._stat(col)
ImputeMode_stat(col) ==
    Return([op |-> "mode", column |-> col.name, name |-> "mode"])

\* self._stat(col), dispatched on the class of self
stat(self, col) ==
    CASE self.variant = "ImputeMean" -> ImputeMean_stat(col)
      [] self.variant = "ImputeMedian" -> ImputeMedian_stat(col)
      [] self.variant = "ImputeMode" -> ImputeMode_stat(col)

\* [self._stat(table[c]).name(c) for c in columns]: built left to right, the
\* first _stat that raises ends the comprehension.
RECURSIVE metrics(_, _, _)
metrics(self, t, columns) ==
    IF columns = <<>> THEN Return(<<>>)
    ELSE LET c == Head(columns)
             s == stat(self, Column(t, c))
         IN  IF s.raised THEN s
             ELSE LET rest == metrics(self, t, Tail(columns)) IN
                  IF rest.raised THEN rest
                  ELSE Return(<<name(s.value[1], c)>> \o rest.value[1])

\* The outcome of a fit call: what it returned or raised, and the requests it
\* made of the table on the way.
Outcome(r, requests) ==
    [raised |-> r.raised, error |-> r.error, transform |-> r.value, requests |-> requests]

\* Mutant of FillMapping: every column is mapped to NULL, not to the fill value.
FillMapping_null(self, columns) == [c \in Range(columns) |-> Null]

\* {c: self.fill_value for c in columns}
FillMapping(self, columns) == [c \in Range(columns) |-> self.fill_value]

\* FillNA.fit(table, metadata)
FillNA_fit(self, t, md, up) ==
    LET columns == select_columns(self.inputs, t, md) IN
    IF columns.raised THEN {Outcome(columns, <<>>)}
    ELSE {Outcome(Return(Transform(FillMapping(self, columns.value[1]))), <<>>)}

\* Mutant of FirstRecord: a failed execution is swallowed and reads as no statistic.
FirstRecord_swallow(reply) ==
    IF reply.raised \/ reply.value[1] = <<>> THEN Return(Empty)
    ELSE Return(reply.value[1][1])

\* The first record of the executed aggregation: .to_dict("records")[0]
FirstRecord(reply) ==
    IF reply.raised THEN reply
    ELSE IF reply.value[1] = <<>> THEN Raise(IndexError)
    ELSE Return(reply.value[1][1])

RECURSIVE RoundTrips(_)
RoundTrips(columns) ==
    IF columns = <<>> THEN <<>> ELSE <<"aggregate", "execute">> \o RoundTrips(Tail(columns))

\* Mutant of BaseImpute_fit: one aggregation is executed per selected column.
BaseImpute_fit_per_column(self, t, md, up) ==
    LET columns == select_columns(self.inputs, t, md) IN
    IF columns.raised THEN {Outcome(columns, <<>>)}
    ELSE LET m == metrics(self, t, columns.value[1]) IN
         IF m.raised THEN {Outcome(m, <<>>)}
         ELSE { LET stats == FirstRecord(reply) IN
                IF stats.raised THEN Outcome(stats, <<"aggregate", "execute">>)
                ELSE Outcome(Return(Transform(stats.value[1])), RoundTrips(columns.value[1]))
                : reply \in execute(up, t, m.value[1]) }

\* Mutant of BaseImpute_fit: the table is queried before the columns are checked.
BaseImpute_fit_late(self, t, md, up) ==
    LET columns == select_columns(self.inputs, t, md) IN
    IF columns.raised THEN {Outcome(columns, <<>>)}
    ELSE LET m == metrics(self, t, columns.value[1]) IN
         IF m.raised THEN {Outcome(m, <<"aggregate", "execute">>)}
         ELSE { LET stats == FirstRecord(reply) IN
                IF stats.raised THEN Outcome(stats, <<"aggregate", "execute">>)
                ELSE Outcome(Return(Transform(stats.value[1])), <<"aggregate", "execute">>)
                : reply \in execute(up, t, m.value[1]) }

\* _BaseImpute.fit(table, metadata)
BaseImpute_fit(self, t, md, up) ==
    LET columns == select_columns(self.inputs, t, md) IN
    IF columns.raised THEN {Outcome(columns, <<>>)}
    ELSE LET m == metrics(self, t, columns.value[1]) IN
         IF m.raised THEN {Outcome(m, <<>>)}
         ELSE { LET stats == FirstRecord(reply) IN
                IF stats.raised THEN Outcome(stats, <<"aggregate", "execute">>)
                ELSE Outcome(Return(Transform(stats.value[1])), <<"aggregate", "execute">>)
                : reply \in execute(up, t, m.value[1]) }

\* step.fit(table, metadata), dispatched on the class of the step
fit(self, t, md, up) ==
    IF self.variant = "FillNA" THEN FillNA_fit(self, t, md, up)
    ELSE BaseImpute_fit(self, t, md, up)

-----------------------------------------------------------------------------
(* The state machine: a caller constructs one Step and fits it repeatedly. *)

Configs ==
    { [variant |-> "FillNA", inputs |-> i, fill_value |-> v] :
        i \in SelectionSpecs, v \in FillValues }
    \cup { [variant |-> k, inputs |-> i, fill_value |-> NoFill] :
        k \in Variants \ {"FillNA"}, i \in SelectionSpecs }

Construct(cfg) ==
    IF cfg.variant = "FillNA" THEN FillNA_init(cfg.inputs, cfg.fill_value)
    ELSE BaseImpute_init(cfg.variant, cfg.inputs)

Init ==
    /\ config \in Configs
    /\ step = Construct(config)
    /\ table \in Tables
    /\ metadata \in Metadatas
    /\ calls = <<>>

\* The two most recent calls.
Recent(s) == IF Len(s) > 2 THEN Tail(s) ELSE s

\* Mutant of Fit: fit consumes the selector's own list of names as it resolves it.
Fit_consuming(up) ==
    /\ \E out \in fit(step, table, metadata, up) :
          calls' = Recent(Append(calls,
                     [up |-> up, raised |-> out.raised, error |-> out.error,
                      transform |-> out.transform, requests |-> out.requests]))
    /\ step' = IF step.inputs.names = <<>> THEN step
               ELSE [step EXCEPT !.inputs.names = Tail(step.inputs.names)]
    /\ UNCHANGED <<config, table, metadata>>

\* Mutant of Fit: fit stores the columns it resolved back into self.inputs.
Fit_caching(up) ==
    /\ \E out \in fit(step, table, metadata, up) :
          calls' = Recent(Append(calls,
                     [up |-> up, raised |-> out.raised, error |-> out.error,
                      transform |-> out.transform, requests |-> out.requests]))
    /\ LET columns == select_columns(step.inputs, table, metadata) IN
       step' = IF columns.raised THEN step
               ELSE [step EXCEPT !.inputs = [kind |-> "cols", names |-> columns.value[1]]]
    /\ UNCHANGED <<config, table, metadata>>

\* The caller fits the step on the table it holds; the engine is up or down.
Fit(up) ==
    /\ \E out \in fit(step, table, metadata, up) :
          calls' = Recent(Append(calls,
                     [up |-> up, raised |-> out.raised, error |-> out.error,
                      transform |-> out.transform, requests |-> out.requests]))
    /\ UNCHANGED <<step, config, table, metadata>>

Next == \E up \in BOOLEAN : Fit(up)

Spec == Init /\ [][Next]_vars

\* Between fits the caller drops the last row of the training table.
DropRow ==
    /\ \E c \in ColumnNames : Len(table.data[c]) > 0
    /\ table' = [table EXCEPT
                   !.data = [c \in ColumnNames |->
                               SubSeq(table.data[c], 1, Len(table.data[c]) - 1)]]
    /\ UNCHANGED <<step, config, metadata, calls>>

NextRetrain == (\E up \in BOOLEAN : Fit(up)) \/ DropRow

SpecRetrain == Init /\ [][NextRetrain]_vars

-----------------------------------------------------------------------------
(* Vocabulary of the properties.  Under Spec the table and the metadata never *)
(* change, so every recorded call was made on the current ones.              *)

Aggregates == {"ImputeMean", "ImputeMedian", "ImputeMode"}
NumericOnly == {"ImputeMean", "ImputeMedian"}
OpOf == [v \in NumericOnly |-> IF v = "ImputeMean" THEN "mean" ELSE "median"]

Selected == select_columns(step.inputs, table, metadata)
SelectedColumns == IF Selected.raised THEN <<>> ELSE Selected.value[1]
ByPredicate == step.inputs.kind # "cols"
NonNumericSelected == SelectSeq(SelectedColumns, LAMBDA c : table.types[c] # "numeric")
TypeCheckFails == step.variant \in NumericOnly /\ NonNumericSelected # <<>>
Executes(call) == Len(SelectSeq(call.requests, LAMBDA r : r = "execute"))
Mapping(call) == call.transform[1]
NonNullCells(c) == { i \in DOMAIN table.data[c] : table.data[c][i] # Null }
CellSum(c) == SeqSum(table.data[c])

-----------------------------------------------------------------------------
\* C1: whenever fit succeeds, the keys of the mapping handed to the transform
\* are exactly the column names the selector returned.
C1_KeysAreSelectedColumns ==
    \A i \in DOMAIN calls :
        ~calls[i].raised =>
            /\ ~Selected.raised
            /\ DOMAIN Mapping(calls[i]) = Range(SelectedColumns)

\* An aggregate step succeeded on a table of which it selects one column
\* and leaves the other out.
C1_Witness ==
    \E i \in DOMAIN calls :
        /\ step.variant \in Aggregates
        /\ ~calls[i].raised
        /\ Len(SelectedColumns) = 1

\* C2 as stated: a non-numeric selected column makes ImputeMean/ImputeMedian
\* fail with a TypeError naming the column and the operation.
C2_RaisesTypeError ==
    \A i \in DOMAIN calls :
        TypeCheckFails =>
            /\ calls[i].raised
            /\ calls[i].error.cls = "TypeError"
            /\ calls[i].error.column = Head(NonNumericSelected)
            /\ calls[i].error.op = OpOf[step.variant]

\* C2 amended: the error raised is a ValueError; it names the first selected
\* column that is not numeric and the operation, mean or median.
C2_RaisesValueError ==
    \A i \in DOMAIN calls :
        TypeCheckFails =>
            /\ calls[i].raised
            /\ calls[i].error.cls = "ValueError"
            /\ calls[i].error.column = Head(NonNumericSelected)
            /\ calls[i].error.op = OpOf[step.variant]

\* ImputeMedian was fitted on a selection holding a non-numeric column.
C2_Witness ==
    /\ step.variant = "ImputeMedian"
    /\ TypeCheckFails
    /\ calls # <<>>

\* C3: a predicate selection matching no column gives a transform with an
\* empty mapping (the engine being up); a by-name selection of a column the
\* schema lacks fails with the selector's error.
C3_EmptySelection ==
    \A i \in DOMAIN calls :
        /\ (ByPredicate /\ ~Selected.raised /\ SelectedColumns = <<>> /\ calls[i].up) =>
               (~calls[i].raised /\ calls[i].transform = <<Empty>>)
        /\ (~ByPredicate /\ Selected.raised) =>
               (calls[i].raised /\ calls[i].error = Selected.error)

\* C4: a successful fit of an aggregate step has built one aggregation and
\* executed it once, however many columns are selected.
C4_OneQueryPerFit ==
    \A i \in DOMAIN calls :
        (step.variant \in Aggregates /\ ~calls[i].raised) =>
            (Executes(calls[i]) = 1 /\ Len(calls[i].requests) = 2)

\* An aggregate step succeeded with two columns selected.
C4_Witness ==
    \E i \in DOMAIN calls :
        /\ step.variant \in Aggregates
        /\ ~calls[i].raised
        /\ Len(SelectedColumns) = 2

\* C5: when a selected column of ImputeMean/ImputeMedian is not numeric, at
\* whatever position, fit raises having asked nothing of the table.
C5_TypeCheckBeforeQuery ==
    \A i \in DOMAIN calls :
        TypeCheckFails => (calls[i].raised /\ calls[i].requests = <<>>)

\* ImputeMean was fitted on a selection whose first column is numeric and
\* whose second is not.
C5_Witness ==
    /\ step.variant = "ImputeMean"
    /\ Len(SelectedColumns) = 2
    /\ table.types[SelectedColumns[1]] = "numeric"
    /\ table.types[SelectedColumns[2]] = "string"
    /\ calls # <<>>

\* C6: FillNA maps every selected column to the fill value it was constructed
\* with, and asks nothing of the table.
C6_FillNAConstant ==
    \A i \in DOMAIN calls :
        (step.variant = "FillNA" /\ ~Selected.raised) =>
            /\ ~calls[i].raised
            /\ DOMAIN Mapping(calls[i]) = Range(SelectedColumns)
            /\ \A c \in Range(SelectedColumns) : Mapping(calls[i])[c] = config.fill_value
            /\ calls[i].requests = <<>>

\* FillNA with a non-zero fill value was fitted, the engine down, on two columns.
C6_Witness ==
    \E i \in DOMAIN calls :
        /\ step.variant = "FillNA"
        /\ config.fill_value = 9
        /\ Len(SelectedColumns) = 2
        /\ ~calls[i].up

\* C7: no partial success.  A call that raised built no transform; a call that
\* returned one passed every stage; and an error of the selector, of a type
\* check or of the engine is the error the caller gets, the query not retried.
C7_NoPartialSuccess ==
    \A i \in DOMAIN calls :
        LET call == calls[i] IN
        /\ call.raised => call.transform = <<>>
        /\ ~call.raised =>
              /\ Len(call.transform) = 1
              /\ ~Selected.raised
              /\ ~TypeCheckFails
              /\ step.variant \in Aggregates => call.up
        /\ Selected.raised => (call.raised /\ call.error = Selected.error)
        /\ TypeCheckFails =>
              /\ call.raised
              /\ call.error = stat(step, Column(table, Head(NonNumericSelected))).error
        /\ (step.variant \in Aggregates /\ ~Selected.raised /\ ~TypeCheckFails /\ ~call.up) =>
              /\ call.raised
              /\ call.error = EngineError
              /\ Executes(call) = 1

\* An aggregate step with a valid selection of two columns was fitted while
\* the engine was down.
C7_Witness ==
    \E i \in DOMAIN calls :
        /\ step.variant \in Aggregates
        /\ ~Selected.raised
        /\ Len(SelectedColumns) = 2
        /\ ~TypeCheckFails
        /\ ~calls[i].up

\* C8 as stated: two successful fits of one step on the same table and
\* metadata give transforms with the same mapping, for every variant.
C8_Idempotent ==
    (Len(calls) = 2 /\ ~calls[1].raised /\ ~calls[2].raised) =>
        calls[1].transform = calls[2].transform

UniqueModes ==
    \A c \in Range(SelectedColumns) : Cardinality(Modes(table.data[c])) = 1

\* C8 amended: the two mappings are the same for FillNA, ImputeMean and
\* ImputeMedian, and for ImputeMode when every selected column has a single
\* most frequent non-null value.
C8_IdempotentUniqueMode ==
    (/\ Len(calls) = 2 /\ ~calls[1].raised /\ ~calls[2].raised
     /\ step.variant = "ImputeMode" => UniqueModes) =>
        calls[1].transform = calls[2].transform

\* ImputeMode was fitted twice with success on two columns of MaxRows rows,
\* each with a single mode.
C8_Witness ==
    /\ Len(calls) = 2 /\ ~calls[1].raised /\ ~calls[2].raised
    /\ step.variant = "ImputeMode"
    /\ Len(SelectedColumns) = 2
    /\ \A c \in ColumnNames : Len(table.data[c]) = MaxRows
    /\ UniqueModes

\* v is the mean of the non-null cells of column c (Null counts 0 in the sum).
IsMean(c, v) ==
    LET k == Cardinality(NonNullCells(c)) IN
    IF k = 0 THEN v = NullScalar
    ELSE v.den > 0 /\ v.num * k = CellSum(c) * v.den

\* v is a median of the non-null cells of column c: half of them at least lie
\* on either side of it, and it is one of them when their number is odd.
IsMedian(c, v) ==
    LET k == Cardinality(NonNullCells(c))
        d == table.data[c]
    IN  IF k = 0 THEN v = NullScalar
        ELSE /\ v.den > 0
             /\ 2 * Cardinality({ i \in NonNullCells(c) : d[i] * v.den <= v.num }) >= k
             /\ 2 * Cardinality({ i \in NonNullCells(c) : d[i] * v.den >= v.num }) >= k
             /\ k % 2 = 1 => (v.den = 1 /\ \E i \in NonNullCells(c) : d[i] = v.num)

\* v is a most frequent non-null cell of column c.
IsMode(c, v) ==
    LET d == table.data[c] IN
    IF NonNullCells(c) = {} THEN v = Null
    ELSE /\ \E i \in NonNullCells(c) : d[i] = v
         /\ \A w \in Values : Count(d, w) <= Count(d, v)

C10_FitLeavesStepAlone ==
    [][ /\ step' = step
        /\ step'.inputs = selector(config.inputs)
        /\ step'.fill_value = config.fill_value
        /\ calls' # calls =>
              LET call == calls'[Len(calls')] IN
              /\ calls # <<>> => calls'[Len(calls') - 1] = calls[Len(calls)]
              /\ \E out \in fit(Construct(config), table, metadata, call.up) :
                    /\ out.raised = call.raised
                    /\ out.error = call.error
                    /\ out.transform = call.transform
      ]_vars

\* ImputeMean succeeded twice with different mappings: on the table before a
\* row was dropped, and on the table after.
C10_Witness ==
    /\ step.variant = "ImputeMean"
    /\ Len(calls) = 2 /\ ~calls[1].raised /\ ~calls[2].raised
    /\ calls[1].transform # calls[2].transform
    /\ step = Construct(config)

====
